---- MODULE Spec2Model ----
(***************************************************************************)
(* Model of src/router/data.js: the four Express route handlers of the     *)
(* broken-cars API (GET /list, POST /create, PUT /edit/:id,                *)
(* DELETE /delete/:id).  Every handler is an async function of the shape   *)
(*                                                                         *)
(*     await validatePage(req.user.roles, <bit>);                          *)
(*     const x = await brokenCarsController.<fn>(<argument>);              *)
(*     res.sendSuccess(<payload>);                                         *)
(*                                                                         *)
(* so a handler run is cut at its two await points into three steps.       *)
(* JavaScript objects are functions from a set of keys (strings) to        *)
(* values; all scalar values are strings.                                  *)
(***************************************************************************)
EXTENDS Naturals, Sequences, FiniteSets

(* ---------------------------------------------------------------- bounds *)

\* Number of request tasks that can be in flight at once.
NumTasks == 2

\* Largest role bitmask drawn for req.user.roles (15 = all four bits).
MaxRoles == 15

Tasks == 1..NumTasks

RoleMasks == 0..MaxRoles

(* --------------------------------------------------------------- objects *)

\* The object {} .
EmptyObject == [k \in {} |-> ""]

\* A merge that fills the fields neither object has with null.
SpreadNullDefaults(a, b) ==
    [k \in DOMAIN a \cup DOMAIN b \cup {"color", "year"} |->
        IF k \in DOMAIN b THEN b[k] ELSE IF k \in DOMAIN a THEN a[k] ELSE "null"]

\* {...a, ...b}: the keys of both, b's value where both have the key.
Spread(a, b) ==
    [k \in DOMAIN a \cup DOMAIN b |-> IF k \in DOMAIN b THEN b[k] ELSE a[k]]

\* JavaScript's x & y on non-negative integers.
RECURSIVE BitAnd(_, _)
BitAnd(x, y) ==
    IF x = 0 \/ y = 0 THEN 0
    ELSE 2 * BitAnd(x \div 2, y \div 2) + (IF x % 2 = 1 /\ y % 2 = 1 THEN 1 ELSE 0)

(* ---------------------------------------------------------------- inputs *)

Routes == {"list", "create", "edit", "delete"}

\* The record fields the list route documents as filter/sort columns.
RecognizedColumns ==
    {"color", "description", "year", "price", "firstBrokenDate", "createdDate",
     "bodyId", "modelId", "bodyName", "modelName"}

\* The fields the create route documents as mandatory.
RequiredCreateFields == {"color", "description", "year", "bodyId", "modelId"}

\* Identifiers that are positive integers, among the :id strings drawn.
PositiveIntegerIds == {"1", "2"}

\* A sort parameter "c1|d1,c2|d2" is held as the sequence of its pairs.
SortSpecs ==
    { << <<"year", "asc">> >>,
      << <<"year", "asc">>, <<"firstBrokenDate", "desc">> >>,
      << <<"password", "asc">> >> }

SortColumns(sort) == {sort[i][1] : i \in 1..Len(sort)}

Request(route, roles, query, body, params) ==
    [route |-> route, roles |-> roles, query |-> query, body |-> body, params |-> params]

NoRequest == Request("none", 0, EmptyObject, EmptyObject, EmptyObject)

ListQueries ==
    {[k \in D |-> IF k = "sort" THEN s ELSE "20"] :
        D \in SUBSET {"sort", "limit"}, s \in SortSpecs}

CreateBodies ==
    {[k \in D |-> IF k = "year" THEN "2020" ELSE "x"] :
        D \in SUBSET (RequiredCreateFields \cup {"price"})}

EditBodies ==
    {[k \in D |-> IF k = "id" THEN i ELSE "x"] :
        D \in SUBSET {"id", "color", "year"}, i \in {"1", "2"}}

EditParams == {[id |-> i] : i \in {"1", "2"}}

DeleteParams == {[id |-> i] : i \in {"1", "2", "0", "-1", "abc"}}

\* Every request drawn by the one-at-a-time specification.
AllRequests ==
    {Request("list", R, q, EmptyObject, EmptyObject) : R \in RoleMasks, q \in ListQueries}
    \cup {Request("create", R, EmptyObject, b, EmptyObject) : R \in RoleMasks, b \in CreateBodies}
    \cup {Request("edit", R, EmptyObject, b, p) : R \in RoleMasks, b \in EditBodies, p \in EditParams}
    \cup {Request("delete", R, EmptyObject, EmptyObject, p) : R \in RoleMasks, p \in DeleteParams}

\* The requests drawn when several are in flight: pairwise different inputs.
FewRequests ==
    { Request("list", 1, [sort |-> << <<"year", "asc">> >>], EmptyObject, EmptyObject),
      Request("list", 3, [limit |-> "20"], EmptyObject, EmptyObject),
      Request("create", 2, EmptyObject, [color |-> "x", year |-> "2020"], EmptyObject),
      Request("create", 6, EmptyObject, [color |-> "x"], EmptyObject),
      Request("edit", 4, EmptyObject, [color |-> "x"], [id |-> "1"]),
      Request("edit", 12, EmptyObject, [year |-> "x"], [id |-> "2"]),
      Request("delete", 8, EmptyObject, EmptyObject, [id |-> "1"]),
      Request("delete", 7, EmptyObject, EmptyObject, [id |-> "2"]) }

\* What a controller call can resolve with, and what it can reject with.
Values == {"v1", "v2"}

DbErrors == {"DB error. Code: 42P01"}

(* ----------------------------------------------------------------- state *)

VARIABLES
    pc,        \* where each task's handler stands
    req,       \* the req object express hands to each task's handler
    authz,     \* outcome of the task's validatePage call: none, passed, denied
    calls,     \* the controller calls the task's handler has made, in order
    returned,  \* how each of those calls settled
    sent,      \* the arguments of the task's res.sendSuccess calls, in order
    thrown,    \* the reasons the task's handler promise was rejected with
    errors     \* the error envelopes sent for the task

vars == <<pc, req, authz, calls, returned, sent, thrown, errors>>

Init ==
    /\ pc = [r \in Tasks |-> "idle"]
    /\ req = [r \in Tasks |-> NoRequest]
    /\ authz = [r \in Tasks |-> "none"]
    /\ calls = [r \in Tasks |-> <<>>]
    /\ returned = [r \in Tasks |-> <<>>]
    /\ sent = [r \in Tasks |-> <<>>]
    /\ thrown = [r \in Tasks |-> <<>>]
    /\ errors = [r \in Tasks |-> <<>>]

(* ------------------------------------------------------------- the code *)

\* The edit handler checking the create handler's bit.
RequiredBitCopied(route) ==
    CASE route = "list" -> 1
      [] route = "create" -> 2
      [] route = "edit" -> 2
      [] route = "delete" -> 8

\* The permission bit each handler passes to validatePage.
RequiredBit(route) ==
    CASE route = "list" -> 1
      [] route = "create" -> 2
      [] route = "edit" -> 4
      [] route = "delete" -> 8

\* The controller function each handler calls.
ControllerFn(route) ==
    CASE route = "list" -> "getData"
      [] route = "create" -> "createData"
      [] route = "edit" -> "updateData"
      [] route = "delete" -> "deleteData"

\* validatePage(roles, bit) is fulfilled when this holds, rejected otherwise.
validatePage(roles, bit) == BitAnd(roles, bit) # 0

\* validatePage called without await: the handler goes on whatever the
\* promise settles to.
DetachedValidatePage(roles, bit) == TRUE

\* `await validatePage(...)`: the handler goes on only when the promise is
\* fulfilled.
AwaitValidatePage(roles, bit) == validatePage(roles, bit)

\* A req kept in one module-level variable that every invocation reads.
SharedFrame(r) == 1

\* The (req, res) a handler invocation reads: its own parameters.
Frame(r) == r

Req(r) == req[Frame(r)]

\* The argument each handler passes to its controller function.
ControllerArg(route, q) ==
    CASE route = "list" -> q.query
      [] route = "create" -> q.body
      [] route = "edit" -> Spread(q.params, q.body)
      [] route = "delete" -> q.params

\* Every handler sending {data}.
SuccessPayloadAllData(route, v) == [data |-> v]

\* The argument of res.sendSuccess, v being what the controller resolved with.
SuccessPayload(route, v) ==
    CASE route = "list" -> [data |-> v]
      [] route = "create" -> [newBrokenCarId |-> v]
      [] route = "edit" -> [data |-> v]
      [] route = "delete" -> EmptyObject

\* express matches the request to a route and invokes the handler, which
\* calls validatePage and suspends at the first await.
Arrive(r, q) ==
    /\ pc[r] = "idle"
    /\ req' = [req EXCEPT ![r] = q]
    /\ pc' = [pc EXCEPT ![r] = "awaitValidate"]
    /\ UNCHANGED <<authz, calls, returned, sent, thrown, errors>>

\* First await, fulfilled: the handler calls the controller and suspends at
\* the second await.
Validated(r, route) ==
    /\ pc[r] = "awaitValidate"
    /\ req[r].route = route
    /\ AwaitValidatePage(Req(r).roles, RequiredBit(route))
    /\ authz' = [authz EXCEPT ![r] =
                    IF validatePage(Req(r).roles, RequiredBit(route))
                    THEN "passed" ELSE "denied"]
    /\ calls' = [calls EXCEPT ![r] =
                    Append(@, [fn |-> ControllerFn(route),
                               arg |-> ControllerArg(route, Req(r))])]
    /\ pc' = [pc EXCEPT ![r] = "awaitController"]
    /\ UNCHANGED <<req, returned, sent, thrown, errors>>

\* First await, rejected: nothing catches, the handler's promise is rejected.
Denied(r, route) ==
    /\ pc[r] = "awaitValidate"
    /\ req[r].route = route
    /\ ~AwaitValidatePage(Req(r).roles, RequiredBit(route))
    /\ authz' = [authz EXCEPT ![r] = "denied"]
    /\ thrown' = [thrown EXCEPT ![r] = Append(@, "PermissionDenied")]
    /\ pc' = [pc EXCEPT ![r] = "rejected"]
    /\ UNCHANGED <<req, calls, returned, sent, errors>>

\* Second await, fulfilled with v: the handler calls res.sendSuccess and ends.
Resolved(r, route, v) ==
    /\ pc[r] = "awaitController"
    /\ req[r].route = route
    /\ returned' = [returned EXCEPT ![r] = Append(@, [ok |-> TRUE, value |-> v])]
    /\ sent' = [sent EXCEPT ![r] = Append(@, SuccessPayload(route, v))]
    /\ pc' = [pc EXCEPT ![r] = "done"]
    /\ UNCHANGED <<req, authz, calls, thrown, errors>>

\* Second await, rejected with e: nothing catches, the handler's promise is
\* rejected.
Failed(r, route, e) ==
    /\ pc[r] = "awaitController"
    /\ req[r].route = route
    /\ returned' = [returned EXCEPT ![r] = Append(@, [ok |-> FALSE, value |-> e])]
    /\ thrown' = [thrown EXCEPT ![r] = Append(@, e)]
    /\ pc' = [pc EXCEPT ![r] = "rejected"]
    /\ UNCHANGED <<req, authz, calls, sent, errors>>

\* router.get('/list', ...)
ListValidated(r) == Validated(r, "list")
ListDenied(r) == Denied(r, "list")
ListResolved(r, v) == Resolved(r, "list", v)
ListFailed(r, e) == Failed(r, "list", e)

\* router.post('/create', ...)
CreateValidated(r) == Validated(r, "create")
CreateDenied(r) == Denied(r, "create")
CreateResolved(r, v) == Resolved(r, "create", v)
CreateFailed(r, e) == Failed(r, "create", e)

\* router.put('/edit/:id', ...)
EditValidated(r) == Validated(r, "edit")
EditDenied(r) == Denied(r, "edit")
EditResolved(r, v) == Resolved(r, "edit", v)
EditFailed(r, e) == Failed(r, "edit", e)

\* router.delete('/delete/:id', ...)
DeleteValidated(r) == Validated(r, "delete")
DeleteDenied(r) == Denied(r, "delete")
DeleteResolved(r, v) == Resolved(r, "delete", v)
DeleteFailed(r, e) == Failed(r, "delete", e)

(* -------------------------------------------------------- the framework *)

\* The rejected handler promise reaches an error-handling middleware (a
\* router that forwards rejections to next(err)), which sends the envelope.
ErrorEnvelopeSent(r) ==
    /\ pc[r] = "rejected"
    /\ errors' = [errors EXCEPT ![r] =
                     Append(@, [success |-> FALSE, error |-> thrown[r][Len(thrown[r])]])]
    /\ pc' = [pc EXCEPT ![r] = "errorSent"]
    /\ UNCHANGED <<req, authz, calls, returned, sent, thrown>>

\* The router ignores the promise the handler returned: the rejection is
\* unhandled and nothing is ever written to the response.
RejectionDropped(r) ==
    /\ pc[r] = "rejected"
    /\ pc' = [pc EXCEPT ![r] = "unanswered"]
    /\ UNCHANGED <<req, authz, calls, returned, sent, thrown, errors>>

\* The connection of a finished request ends; the task serves a new request.
Close(r) ==
    /\ pc[r] \in {"done", "errorSent", "unanswered"}
    /\ pc' = [pc EXCEPT ![r] = "idle"]
    /\ req' = [req EXCEPT ![r] = NoRequest]
    /\ authz' = [authz EXCEPT ![r] = "none"]
    /\ calls' = [calls EXCEPT ![r] = <<>>]
    /\ returned' = [returned EXCEPT ![r] = <<>>]
    /\ sent' = [sent EXCEPT ![r] = <<>>]
    /\ thrown' = [thrown EXCEPT ![r] = <<>>]
    /\ errors' = [errors EXCEPT ![r] = <<>>]

(* -------------------------------------------------------- specifications *)

AllIdle == \A s \in Tasks : pc[s] = "idle"

\* One request at a time, every input.
Next ==
    \E r \in Tasks :
        \/ \E q \in AllRequests : AllIdle /\ Arrive(r, q)
        \/ ListValidated(r) \/ ListDenied(r)
        \/ \E v \in Values : ListResolved(r, v)
        \/ \E e \in DbErrors : ListFailed(r, e)
        \/ CreateValidated(r) \/ CreateDenied(r)
        \/ \E v \in Values : CreateResolved(r, v)
        \/ \E e \in DbErrors : CreateFailed(r, e)
        \/ EditValidated(r) \/ EditDenied(r)
        \/ \E v \in Values : EditResolved(r, v)
        \/ \E e \in DbErrors : EditFailed(r, e)
        \/ DeleteValidated(r) \/ DeleteDenied(r)
        \/ \E v \in Values : DeleteResolved(r, v)
        \/ \E e \in DbErrors : DeleteFailed(r, e)
        \/ ErrorEnvelopeSent(r) \/ RejectionDropped(r)
        \/ Close(r)

Spec == Init /\ [][Next]_vars

\* Several requests in flight, their handlers interleaved at the awaits.
ConcNext ==
    \E r \in Tasks :
        \/ \E q \in FewRequests : Arrive(r, q)
        \/ ListValidated(r) \/ ListDenied(r)
        \/ \E v \in Values : ListResolved(r, v)
        \/ \E e \in DbErrors : ListFailed(r, e)
        \/ CreateValidated(r) \/ CreateDenied(r)
        \/ \E v \in Values : CreateResolved(r, v)
        \/ \E e \in DbErrors : CreateFailed(r, e)
        \/ EditValidated(r) \/ EditDenied(r)
        \/ \E v \in Values : EditResolved(r, v)
        \/ \E e \in DbErrors : EditFailed(r, e)
        \/ DeleteValidated(r) \/ DeleteDenied(r)
        \/ \E v \in Values : DeleteResolved(r, v)
        \/ \E e \in DbErrors : DeleteFailed(r, e)
        \/ ErrorEnvelopeSent(r) \/ RejectionDropped(r)
        \/ Close(r)

ConcSpec == Init /\ [][ConcNext]_vars

(* ---------------------------------------------------------------- claims *)

\* The handler of task r has been invoked on some request.
Started(r) == pc[r] # "idle"

\* The permission bits as the interface table states them.
TableBit(route) ==
    IF route = "list" THEN 1
    ELSE IF route = "create" THEN 2
    ELSE IF route = "edit" THEN 4
    ELSE 8

\* C1: a controller call is made, and a success response sent, only by a
\* request whose validatePage call was fulfilled; a request whose role
\* bitmask lacks the route's bit makes no controller call and sends no
\* success response.
C1_AuthorizationPrecedesPersistence ==
    \A r \in Tasks :
        /\ calls[r] # <<>> => authz[r] = "passed"
        /\ sent[r] # <<>> => authz[r] = "passed"
        /\ (Started(r) /\ BitAnd(req[r].roles, TableBit(req[r].route)) = 0) =>
               (calls[r] = <<>> /\ sent[r] = <<>>)
        /\ authz[r] = "denied" => (calls[r] = <<>> /\ sent[r] = <<>>)

\* C1 witness: DELETE /delete/:id without bit 8 has been turned away.
C1_Witness ==
    \E r \in Tasks :
        /\ req[r].route = "delete"
        /\ BitAnd(req[r].roles, 8) = 0
        /\ req[r].roles # 0
        /\ authz[r] = "denied"
        /\ pc[r] = "rejected"

\* C2: a request passes authorization exactly when its role bitmask has the
\* bit of its own route: list 1, create 2, edit 4, delete 8.
C2_OwnBitDecides ==
    \A r \in Tasks :
        /\ authz[r] = "passed" => BitAnd(req[r].roles, TableBit(req[r].route)) # 0
        /\ authz[r] = "denied" => BitAnd(req[r].roles, TableBit(req[r].route)) = 0
        /\ (pc[r] \notin {"idle", "awaitValidate"}) => authz[r] # "none"

\* C2 witness: a caller holding bits 1, 2 and 8 is denied the edit route.
C2_Witness ==
    \E r \in Tasks :
        /\ req[r].route = "edit"
        /\ req[r].roles = 11
        /\ authz[r] = "denied"

\* C3: every failed request gets the error envelope: no request whose
\* handler promise was rejected is left without a response.
C3_FailureGetsErrorEnvelope ==
    \A r \in Tasks :
        /\ pc[r] # "unanswered"
        /\ (thrown[r] # <<>> /\ pc[r] # "rejected") => Len(errors[r]) = 1

C5_MissingFieldNeverPersisted ==
    \A r \in Tasks :
        (/\ req[r].route = "create"
         /\ BitAnd(req[r].roles, 2) # 0
         /\ ~(RequiredCreateFields \subseteq DOMAIN req[r].body))
        => calls[r] = <<>>

\* C6: an authorized list request whose sort parameter names an
\* unrecognized column never reaches getData.
C6_UnknownSortColumnRejected ==
    \A r \in Tasks :
        (/\ req[r].route = "list"
         /\ BitAnd(req[r].roles, 1) # 0
         /\ "sort" \in DOMAIN req[r].query
         /\ ~(SortColumns(req[r].query["sort"]) \subseteq RecognizedColumns))
        => calls[r] = <<>>

\* C7: the id handed to updateData is the :id of the path, whatever the
\* body holds.
C7_UpdateKeepsPathId ==
    \A r \in Tasks :
        (req[r].route = "edit" /\ calls[r] # <<>>) =>
            /\ "id" \in DOMAIN calls[r][1].arg
            /\ calls[r][1].arg["id"] = req[r].params["id"]

C9_InvalidIdNeverDeleted ==
    \A r \in Tasks :
        (/\ req[r].route = "delete"
         /\ BitAnd(req[r].roles, 8) # 0
         /\ req[r].params["id"] \notin PositiveIntegerIds)
        => calls[r] = <<>>

\* What the model holds of task s.
TaskState(s) ==
    <<pc[s], req[s], authz[s], calls[s], returned[s], sent[s], thrown[s], errors[s]>>

\* The controller calls and the success responses of every task are those of
\* its own request.
OwnInputOwnResult ==
    \A r \in Tasks :
        /\ calls[r] # <<>> =>
              /\ calls[r][1].fn = ControllerFn(req[r].route)
              /\ calls[r][1].arg =
                    (CASE req[r].route = "list" -> req[r].query
                       [] req[r].route = "create" -> req[r].body
                       [] req[r].route = "edit" -> Spread(req[r].params, req[r].body)
                       [] req[r].route = "delete" -> req[r].params)
              /\ BitAnd(req[r].roles, TableBit(req[r].route)) # 0
        /\ sent[r] # <<>> =>
              /\ returned[r] # <<>>
              /\ \A k \in DOMAIN sent[r][1] : sent[r][1][k] = returned[r][1].value

\* C10: with requests interleaved, each controller call carries the input of
\* its own request and each success response the value its own call
\* resolved with, and every step of a handler changes the state of its own
\* request only.
C10_RequestsIndependent ==
    /\ []OwnInputOwnResult
    /\ [][\E r \in Tasks : \A s \in Tasks \ {r} : TaskState(s)' = TaskState(s)]_vars

\* C10 witness: two requests with different inputs in flight together, one
\* answered while the other still awaits its controller call.
C10_Witness ==
    \E r, s \in Tasks :
        /\ r # s
        /\ req[r].route = "edit"
        /\ req[s].route = "create"
        /\ pc[r] = "awaitController"
        /\ pc[s] = "done"
        /\ calls[r][1].arg # calls[s][1].arg
        /\ sent[s] = <<[newBrokenCarId |-> "v1"]>>

====
